---- MODULE Spec2Model ----
(***************************************************************************)
(* State machine of the MedicalImageProcessor component                    *)
(* (src/unnamed/part_000): the image registry, the Niivue volume list,     *)
(* the processing history and the asynchronous resolution of each          *)
(* submitted job.                                                          *)
(*                                                                         *)
(* React state is modelled by one variable per useState cell.  Event       *)
(* handlers run to completion on the single JavaScript thread, so every    *)
(* handler is one action; each `await` of an asynchronous callback is a    *)
(* separate step of that callback.                                         *)
(***************************************************************************)
EXTENDS Integers, Sequences, FiniteSets, TLC

\* ---------------------------------------------------------------- bounds
MaxImages == 2        \* files handed to handleFileUpload over the session
MaxSubmits == 2       \* successful submissions over the session
NumIds == 2           \* distinct strings the id expression can yield
MaxResultImages == 1  \* longest imageOptionsArray of a fetched document
MaxVolumes == 2       \* most volumes the renderer is let to hold
MaxLiveImages == 1    \* files of the session under LiveSpec

\* ------------------------------------------------------------- constants
NoIndex == -1                    \* currentImageIndex === null
NoTool == "null"                 \* selectedTool === null
Files == 1..MaxImages            \* the files of the session, by name
OkStatus == 200
ErrStatus == 500
HttpStatuses == {OkStatus, ErrStatus}

Opaque == 1                      \* opacity of a volume as it is added
Hidden == 0

\* alert() texts.  alert() blocks the thread until it is dismissed.
NoNotice == "none"
ValidationNotice == "Please select at least one image and a processing tool"
NoResultNotice == "No result available for this item"
ProcessErrorNotice == "Process returned error message"
EmptyResultNotice == "No image options available in the result"
\* confirm() text; confirm() blocks the thread until it is answered
ConfirmClearNotice == "Are you sure you want to clear all processing history?"

VARIABLES
  images,             \* useState<ImageFile[]>: the image registry
  currentImageIndex,  \* useState<number | null>: NoIndex for null
  selectedTool,       \* useState<string | null>: NoTool for null
  processingHistory,  \* useState<ProcessingHistoryItem[]>
  volumes,            \* nv.volumes: ids of the volumes Niivue holds, in order
  opacity,            \* nv.volumes[k].opacity, by position in nv.volumes
  loads,              \* files whose NVImage.loadFromFile is in flight
  uploaded,           \* files handed to handleFileUpload so far
  clock,              \* number of submissions so far (orders new Date())
  jobs,               \* per submission: the setTimeout callback's position
  notice              \* text of the alert() on screen, NoNotice for none

vars == <<images, currentImageIndex, selectedTool, processingHistory, volumes,
          opacity, loads, uploaded, clock, jobs, notice>>

\* --------------------------------------------------------------- helpers
RemoveAt(s, k) == SubSeq(s, 1, k - 1) \o SubSeq(s, k + 1, Len(s))

processingTools ==
  << [id |-> "segmentation", name |-> "Segmentation"],
     [id |-> "registration", name |-> "Image Registration"] >>

ToolIds == {processingTools[k].id : k \in 1..Len(processingTools)}

\* The values Math.random().toString(36).substring(2, 9) may yield; each
\* number stands for one string.  Nothing in the expression excludes a value
\* that an earlier call returned.
IdSpace == 1..NumIds

Init ==
  /\ images = <<>>
  /\ currentImageIndex = NoIndex
  /\ selectedTool = NoTool
  /\ processingHistory = <<>>
  /\ volumes = <<>>
  /\ opacity = <<>>
  /\ loads = {}
  /\ uploaded = 0
  /\ clock = 0
  /\ jobs = <<>>
  /\ notice = NoNotice

\* no alert is on screen: handlers and callbacks can run
Idle == notice = NoNotice

\* ----------------------------------------------------------- upload path
\* handleFileUpload(files): starts one load per file and, when no image is
\* active yet, points the cursor at images.length.  The n files of a call
\* are the next n files of the session.
handleFileUpload(n) ==
  /\ Idle
  /\ uploaded + n <= MaxImages
  /\ uploaded' = uploaded + n
  /\ loads' = loads \cup (uploaded + 1 .. uploaded + n)
  /\ currentImageIndex' =
       IF currentImageIndex = NoIndex /\ n > 0
       THEN Len(images) ELSE currentImageIndex
  /\ UNCHANGED <<images, selectedTool, processingHistory, volumes, opacity, clock,
                 jobs, notice>>

\* id the renderer gives the next loaded image (nvimage.id, unique)
NextImageId == Len(images) + 1

\* the continuation after `await NVImage.loadFromFile`: addVolume, setImages
FileLoaded(f) ==
  /\ Idle
  /\ f \in loads
  /\ Len(volumes) < MaxVolumes
  /\ loads' = loads \ {f}
  /\ volumes' = Append(volumes, NextImageId)
  /\ opacity' = Append(opacity, Opaque)
  /\ images' = images \o << [id |-> NextImageId, name |-> f, selected |-> FALSE] >>
  /\ UNCHANGED <<currentImageIndex, selectedTool, processingHistory, uploaded,
                 clock, jobs, notice>>

\* NVImage.loadFromFile rejects: the async callback ends, nothing is added
FileLoadFailed(f) ==
  /\ Idle
  /\ f \in loads
  /\ loads' = loads \ {f}
  /\ UNCHANGED <<images, currentImageIndex, selectedTool, processingHistory,
                 volumes, opacity, uploaded, clock, jobs, notice>>

\* faulty variant: the image is selected instead of flipped
ToggleSelected_SetTrue(imgs, id) ==
  [k \in DOMAIN imgs |->
     IF imgs[k].id = id THEN [imgs[k] EXCEPT !.selected = TRUE] ELSE imgs[k]]

\* line 83
ToggleSelected(imgs, id) ==
  [k \in DOMAIN imgs |->
     IF imgs[k].id = id THEN [imgs[k] EXCEPT !.selected = ~imgs[k].selected]
     ELSE imgs[k]]

toggleImageSelection(id) ==
  /\ Idle
  /\ images' = ToggleSelected(images, id)
  /\ UNCHANGED <<currentImageIndex, selectedTool, processingHistory, volumes, opacity,
                 loads, uploaded, clock, jobs, notice>>

setSelectedTool(t) ==
  /\ Idle
  /\ selectedTool' = t
  /\ UNCHANGED <<images, currentImageIndex, processingHistory, volumes, opacity, loads,
                 uploaded, clock, jobs, notice>>

\* ----------------------------------------------------------- submission
\* nv.removeVolumeByIndex(idx), idx counted from 0.  What Niivue does with an
\* index past the end is not in this repository: it either throws or ignores.
OutOfRange == {"throw", "ignore"}

\* lines 112-118: the unselected registry positions, highest first, each
\* removed from the renderer by its registry index.  k is the registry
\* position (from 1) still to visit.
RECURSIVE PruneFrom(_, _, _, _)
PruneFrom(imgs, k, vols, oob) ==
  IF k = 0 THEN [volumes |-> vols, threw |-> FALSE]
  ELSE IF imgs[k].selected THEN PruneFrom(imgs, k - 1, vols, oob)
  ELSE IF k - 1 >= Len(vols)
       THEN IF oob = "throw" THEN [volumes |-> vols, threw |-> TRUE]
            ELSE PruneFrom(imgs, k - 1, vols, oob)
       ELSE PruneFrom(imgs, k - 1, RemoveAt(vols, k), oob)

PruneUnselected(imgs, vols, oob) == PruneFrom(imgs, Len(imgs), vols, oob)

\* tool?.name || selectedTool
ToolName(toolId) ==
  LET found == {k \in 1..Len(processingTools) : processingTools[k].id = toolId}
  IN IF found = {} THEN toolId ELSE processingTools[CHOOSE k \in found : TRUE].name

\* lines 127-133.  An absent optional field is the empty sequence.
NewHistoryItem(id, now, nvd, toolId) ==
  [id |-> id, timestamp |-> now, nvDocument |-> nvd, toolName |-> ToolName(toolId),
   status |-> "pending", result |-> <<>>, error |-> <<>>]

\* faulty variant: the new record is put at the end, [...prev, historyItem]
Prepend_AtEnd(item, prev) == prev \o <<item>>

\* line 136
Prepend(item, prev) == <<item>> \o prev

\* the setTimeout callback of one submission; only historyItem.id is captured
NewJob(id) == [id |-> id, stage |-> "scheduled"]

selectedImages == SelectSeq(images, LAMBDA img : img.selected)

\* faulty variant: the tool is not checked
SubmitRejected_NoToolCheck == Len(selectedImages) = 0

\* lines 101-105
SubmitRejected == Len(selectedImages) = 0 \/ selectedTool = NoTool

handleProcessImages ==
  /\ Idle
  /\ IF SubmitRejected
       THEN /\ notice' = ValidationNotice
            /\ UNCHANGED <<images, currentImageIndex, selectedTool, processingHistory,
                           volumes, opacity, loads, uploaded, clock, jobs>>
       ELSE /\ clock < MaxSubmits
            /\ \E oob \in OutOfRange, id \in IdSpace :
                 LET pruned == PruneUnselected(images, volumes, oob)
                     nvd == pruned.volumes            \* nv.json()
                     historyItem == NewHistoryItem(id, clock + 1, nvd, selectedTool)
                 IN /\ volumes' = pruned.volumes
                    /\ opacity' = PruneUnselected(images, opacity, oob).volumes
                    /\ IF pruned.threw
                       THEN UNCHANGED <<processingHistory, clock, jobs>>
                       ELSE /\ processingHistory' = Prepend(historyItem, processingHistory)
                            /\ clock' = clock + 1
                            /\ jobs' = Append(jobs, NewJob(historyItem.id))
            /\ UNCHANGED <<images, currentImageIndex, selectedTool, loads, uploaded, notice>>

\* ----------------------------------------------------------- resolution
\* values thrown inside the try block: Error objects with a message
Thrown(msg) == [isObject |-> TRUE, hasMessage |-> TRUE, message |-> msg, text |-> msg]

\* line 91
HttpError(status) == Thrown("HTTP error! Status: " \o ToString(status))

\* lines 163-166
ErrorString(error) ==
  IF error.isObject /\ error.hasMessage THEN error.message ELSE error.text

\* faulty variant: the id test is dropped, every record is updated
CompletedUpdate_EveryRecord(prev, id, resultDocument) ==
  [k \in DOMAIN prev |->
    [prev[k] EXCEPT !.status = "completed", !.result = <<resultDocument>>]]

\* lines 148-154
CompletedUpdate(prev, id, resultDocument) ==
  [k \in DOMAIN prev |->
    IF prev[k].id = id
    THEN [prev[k] EXCEPT !.status = "completed", !.result = <<resultDocument>>]
    ELSE prev[k]]

\* faulty variant: the catch branch records the error and leaves the status alone
FailedUpdate_StatusKept(prev, id, error) ==
  [k \in DOMAIN prev |->
    IF prev[k].id = id THEN [prev[k] EXCEPT !.error = <<ErrorString(error)>>] ELSE prev[k]]

\* lines 157-170
FailedUpdate(prev, id, error) ==
  [k \in DOMAIN prev |->
    IF prev[k].id = id
    THEN [prev[k] EXCEPT !.status = "failed", !.error = <<ErrorString(error)>>]
    ELSE prev[k]]

JobFrame == UNCHANGED <<images, currentImageIndex, selectedTool, volumes, opacity, loads,
                        uploaded, clock, notice>>

\* the 9000 ms timer expires: the callback starts and issues fetch('/scene')
TimerFires(j) ==
  /\ Idle
  /\ j \in DOMAIN jobs
  /\ jobs[j].stage = "scheduled"
  /\ jobs' = [jobs EXCEPT ![j].stage = "running"]
  /\ UNCHANGED processingHistory
  /\ JobFrame

\* the documents a parsed body may be: by the length of imageOptionsArray
Documents == {[imageOptionsArray |-> [k \in 1..n |-> k]] : n \in 0..MaxResultImages}

\* How the awaits of the try block end.  None of them reads or writes the
\* component's state before the last one has settled, so the try block is one
\* step, taken when its last await settles.  It ends in the catch branch when
\* fetch rejects, when the response is not ok (line 90), or when
\* response.json(), NVDocument.loadFromJSON or fetchLinkedData rejects (one
\* Error stands for the three: the catch branch treats them alike).
Failures ==
  { Thrown("Failed to fetch") }
    \cup { HttpError(status) : status \in {st \in HttpStatuses : st \notin 200..299} }
    \cup { Thrown("Invalid document") }

\* the catch branch
Catch(j, error) ==
  /\ processingHistory' = FailedUpdate(processingHistory, jobs[j].id, error)
  /\ jobs' = [jobs EXCEPT ![j].stage = "done"]
  /\ JobFrame

\* the end of the try block
Succeed(j, doc) ==
  /\ processingHistory' = CompletedUpdate(processingHistory, jobs[j].id, doc)
  /\ jobs' = [jobs EXCEPT ![j].stage = "done"]
  /\ JobFrame

Resolve(j) ==
  /\ Idle
  /\ j \in DOMAIN jobs
  /\ jobs[j].stage = "running"
  /\ \/ \E error \in Failures : Catch(j, error)
     \/ \E doc \in Documents : Succeed(j, doc)

\* ------------------------------------------------------- history, viewing
\* nv.loadVolumes(options): the loaded volumes replace the current ones or
\* are added to them, as the renderer decides.  A volume loaded from option
\* k carries an id outside the registry's ids.
MergeModes == {"replace", "augment"}

ResultVolumes(options) == [k \in 1..Len(options) |-> 0 - options[k]]

LoadVolumes(vols, options, mode) ==
  IF mode = "replace" THEN ResultVolumes(options) ELSE vols \o ResultVolumes(options)

\* the opacities after nv.loadVolumes: a loaded volume is opaque
LoadOpacities(ops, options, mode) ==
  LET fresh == [k \in 1..Len(options) |-> Opaque]
  IN IF mode = "replace" THEN fresh ELSE ops \o fresh

ViewFrame == UNCHANGED <<images, currentImageIndex, selectedTool,
                         processingHistory, loads, uploaded, clock, jobs>>

\* line 178: !item.result
HasNoResult(item) == item.result = <<>>

\* faulty variant: the length test is dropped
ResultIsEmpty_Never(item) == FALSE

\* line 190: item.result.data.imageOptionsArray.length === 0
ResultIsEmpty(item) == Len(item.result[1].imageOptionsArray) = 0

handleViewResult(item) ==
  /\ Idle
  /\ IF HasNoResult(item)
     THEN notice' = NoResultNotice /\ UNCHANGED <<volumes, opacity>>
     ELSE IF ResultIsEmpty(item)
     THEN notice' = EmptyResultNotice /\ UNCHANGED <<volumes, opacity>>
     ELSE /\ notice' = IF item.error # <<>> THEN ProcessErrorNotice ELSE notice
          /\ \E mode \in MergeModes :
               LET loaded == LoadVolumes(volumes, item.result[1].imageOptionsArray, mode)
               IN /\ Len(loaded) <= MaxVolumes
                  /\ volumes' = loaded
                  /\ opacity' = LoadOpacities(opacity, item.result[1].imageOptionsArray, mode)
  /\ ViewFrame

\* line 198
DeleteById(prev, id) == SelectSeq(prev, LAMBDA item : item.id # id)

HistoryFrame == UNCHANGED <<images, currentImageIndex, selectedTool, volumes, opacity,
                            loads, uploaded, clock, jobs, notice>>

handleDeleteHistoryItem(id) ==
  /\ Idle
  /\ processingHistory' = DeleteById(processingHistory, id)
  /\ HistoryFrame

\* line 202: handleClearHistory is called and confirm() opens
ClearRequested ==
  /\ Idle
  /\ notice' = ConfirmClearNotice
  /\ UNCHANGED <<images, currentImageIndex, selectedTool, processingHistory,
                 volumes, opacity, loads, uploaded, clock, jobs>>

\* faulty variant: the history is emptied whatever confirm() returns
ClearIfConfirmed_Always(prev, confirmed) == <<>>

\* lines 202-204
ClearIfConfirmed(prev, confirmed) == IF confirmed THEN <<>> ELSE prev

\* confirm() returns the user's answer and the handler runs to its end
handleClearHistory(confirmed) ==
  /\ notice = ConfirmClearNotice
  /\ notice' = NoNotice
  /\ processingHistory' = ClearIfConfirmed(processingHistory, confirmed)
  /\ UNCHANGED <<images, currentImageIndex, selectedTool, volumes, opacity, loads,
                 uploaded, clock, jobs>>

\* ------------------------------------------------------------ visibility
\* nv.getVolumeIndexByID(id): the position, from 0, of the volume with that
\* id, -1 when the renderer holds none
getVolumeIndexByID(vols, id) ==
  LET found == {k \in DOMAIN vols : vols[k] = id}
  IN IF found = {} THEN -1
     ELSE (CHOOSE k \in found : \A m \in found : k <= m) - 1

\* lines 216-223: the registry positions in order, k (from 1) the next to
\* visit; each image's volume is looked up by the image's id and set to 1 at
\* registry index id, to 0 elsewhere.  What nv.setOpacity does with the
\* index -1 is not in this repository: it either throws or ignores.
RECURSIVE SetOpacities(_, _, _, _, _, _)
SetOpacities(imgs, k, id, vols, ops, oob) ==
  IF k > Len(imgs) THEN [opacity |-> ops, threw |-> FALSE]
  ELSE LET volIdx == getVolumeIndexByID(vols, imgs[k].id)
           value == IF k - 1 = id THEN Opaque ELSE Hidden
       IN IF volIdx = -1
          THEN IF oob = "throw" THEN [opacity |-> ops, threw |-> TRUE]
               ELSE SetOpacities(imgs, k + 1, id, vols, ops, oob)
          ELSE SetOpacities(imgs, k + 1, id, vols,
                            [ops EXCEPT ![volIdx + 1] = value], oob)

\* handleVisibility(id), id the registry index of the list entry clicked.
\* nv.updateGLVolume() redraws the canvas and writes none of the variables.
handleVisibility(id) ==
  /\ Idle
  /\ id \in 0..Len(images) - 1
  /\ currentImageIndex' = id
  /\ \E oob \in OutOfRange :
       opacity' = SetOpacities(images, 1, id, volumes, opacity, oob).opacity
  /\ UNCHANGED <<images, selectedTool, processingHistory, volumes, loads,
                 uploaded, clock, jobs, notice>>

\* the user closes the alert on screen
DismissAlert ==
  /\ notice \notin {NoNotice, ConfirmClearNotice}
  /\ notice' = NoNotice
  /\ UNCHANGED <<images, currentImageIndex, selectedTool, processingHistory,
                 volumes, opacity, loads, uploaded, clock, jobs>>

\* the submissions of a session, in order
JobIndexes == 1..MaxSubmits

Next ==
  \/ DismissAlert
  \/ \E n \in 0..MaxImages : handleFileUpload(n)
  \/ \E f \in Files : FileLoaded(f)
  \/ \E f \in Files : FileLoadFailed(f)
  \/ \E id \in 1..MaxImages : toggleImageSelection(id)
  \/ \E t \in ToolIds : setSelectedTool(t)
  \/ \E id \in 0..MaxImages - 1 : handleVisibility(id)
  \/ handleProcessImages
  \/ \E j \in JobIndexes : TimerFires(j)
  \/ \E j \in JobIndexes : Resolve(j)
  \/ \E k \in DOMAIN processingHistory : handleViewResult(processingHistory[k])
  \/ \E id \in IdSpace : handleDeleteHistoryItem(id)
  \/ ClearRequested
  \/ \E confirmed \in BOOLEAN : handleClearHistory(confirmed)

Spec == Init /\ [][Next]_vars

\* The same program with fewer files, and with the scheduling the browser
\* gives: an alert is dismissed in the end, a timer that is due fires and a
\* pending fetch settles even if alerts keep interrupting.
LiveNext ==
  \/ DismissAlert
  \/ \E n \in 0..MaxLiveImages : handleFileUpload(n) /\ uploaded' <= MaxLiveImages
  \/ \E f \in Files : FileLoaded(f)
  \/ \E f \in Files : FileLoadFailed(f)
  \/ \E id \in 1..MaxImages : toggleImageSelection(id)
  \/ \E t \in ToolIds : setSelectedTool(t)
  \/ \E id \in 0..MaxImages - 1 : handleVisibility(id)
  \/ handleProcessImages
  \/ \E j \in JobIndexes : TimerFires(j)
  \/ \E j \in JobIndexes : Resolve(j)
  \/ \E k \in DOMAIN processingHistory : handleViewResult(processingHistory[k])
  \/ \E id \in IdSpace : handleDeleteHistoryItem(id)
  \/ ClearRequested
  \/ \E confirmed \in BOOLEAN : handleClearHistory(confirmed)

Fairness ==
  /\ WF_vars(DismissAlert)
  /\ WF_vars(\E confirmed \in BOOLEAN : handleClearHistory(confirmed))
  /\ \A j \in JobIndexes : SF_vars(TimerFires(j)) /\ SF_vars(Resolve(j))

LiveSpec == Init /\ [][LiveNext]_vars /\ Fairness

\* ------------------------------------------------------------ properties
\* A record is told from the others by its submission (timestamp), which no
\* two records share; its id may be shared.
RecordsOf(h, t) == {k \in DOMAIN h : h[k].timestamp = t}

Terminal == {"completed", "failed"}

\* job j's callback runs its try block to the end in this step
Settles(j) == j \in DOMAIN jobs /\ jobs[j].stage = "running" /\ jobs'[j].stage = "done"

\* C1: a record is created pending, and its status changes only from pending
\* to completed or failed; a completed or failed record keeps its status.
C1_StatusChangesAtMostOnce ==
  [][ /\ \A k \in DOMAIN processingHistory' :
           RecordsOf(processingHistory, processingHistory'[k].timestamp) = {}
             => processingHistory'[k].status = "pending"
      /\ \A i \in DOMAIN processingHistory, k \in DOMAIN processingHistory' :
           processingHistory[i].timestamp = processingHistory'[k].timestamp
             => \/ processingHistory'[k].status = processingHistory[i].status
                \/ /\ processingHistory[i].status = "pending"
                   /\ processingHistory'[k].status \in Terminal ]_vars

\* C2: a record that is pending and stays in the history is completed or
\* failed in the end.
Pending(t) ==
  \E k \in DOMAIN processingHistory :
    processingHistory[k].timestamp = t /\ processingHistory[k].status = "pending"

C2_PendingEventuallyResolved == \A t \in JobIndexes : Pending(t) ~> ~Pending(t)

\* a job has failed and its record, still in the history, is failed
C2_Witness ==
  \E k \in DOMAIN processingHistory :
    /\ processingHistory[k].status = "failed"
    /\ jobs[processingHistory[k].timestamp].stage = "done"

\* C3: a submit with no image selected or no tool chosen changes neither the
\* history, the renderer's volumes, the registry nor the scheduled jobs.
NoImageSelected == \A k \in DOMAIN images : ~images[k].selected

C3_RejectedSubmitChangesNothing ==
  [][ (handleProcessImages /\ (NoImageSelected \/ selectedTool = NoTool))
        => UNCHANGED <<processingHistory, volumes, images, jobs, clock>> ]_vars

\* a rejected submit has just happened with a tool chosen and images loaded,
\* while an earlier job is still in the history
C3_Witness ==
  /\ notice = ValidationNotice
  /\ NoImageSelected /\ Len(images) = 2 /\ selectedTool # NoTool
  /\ Len(processingHistory) = 1

\* C4: result is present iff status is completed, error iff status is failed.
C4_ResultIffCompleted ==
  \A k \in DOMAIN processingHistory :
    /\ (processingHistory[k].result # <<>>) <=> (processingHistory[k].status = "completed")
    /\ (processingHistory[k].error # <<>>) <=> (processingHistory[k].status = "failed")

\* C5: the snapshot stored by a successful submit holds the volumes of exactly
\* the selected images.
SelectedIds == [k \in DOMAIN selectedImages |-> selectedImages[k].id]

C5_SnapshotIsSelection ==
  [][ clock' = clock + 1
        => processingHistory'[1].nvDocument = SelectedIds ]_vars

\* C6: when job j settles, records with another id are unchanged, records
\* with j's id change only in status and result (success) or status and error
\* (failure), and the list keeps its length and order.
C6_ResolutionFrame ==
  [][ \A j \in DOMAIN jobs : Settles(j) =>
        /\ Len(processingHistory') = Len(processingHistory)
        /\ \A k \in DOMAIN processingHistory :
             LET old == processingHistory[k]
                 new == processingHistory'[k]
             IN IF old.id # jobs[j].id
                THEN new = old
                ELSE /\ new.id = old.id
                     /\ new.timestamp = old.timestamp
                     /\ new.toolName = old.toolName
                     /\ new.nvDocument = old.nvDocument
                     /\ \/ new.status = "completed" /\ new.error = old.error
                        \/ new.status = "failed" /\ new.result = old.result ]_vars

\* two records with different ids, the older one resolved, the newer pending
C6_Witness ==
  /\ Len(processingHistory) = 2
  /\ processingHistory[1].id # processingHistory[2].id
  /\ processingHistory[1].status = "pending"
  /\ processingHistory[2].status = "completed"
  /\ jobs[2].stage = "running"

\* C7: the history is ordered by submission, the most recent first.
C7_MostRecentFirst ==
  \A i, k \in DOMAIN processingHistory :
    i < k => processingHistory[i].timestamp > processingHistory[k].timestamp

\* two records, the older resolved after the newer was submitted
C7_Witness ==
  /\ Len(processingHistory) = 2
  /\ processingHistory[2].status = "failed"
  /\ processingHistory[1].status = "completed"

\* C8: when job j settles, the records of j's submission take the outcome of
\* j's own fetch and the records of other submissions are unchanged.
C8_JobsIndependent ==
  [][ \A j \in DOMAIN jobs :
        /\ \A doc \in Documents : Succeed(j, doc) =>
             \A k \in RecordsOf(processingHistory', j) :
               /\ processingHistory'[k].status = "completed"
               /\ processingHistory'[k].result = <<doc>>
        /\ \A e \in Failures : Catch(j, e) =>
             \A k \in RecordsOf(processingHistory', j) :
               /\ processingHistory'[k].status = "failed"
               /\ processingHistory'[k].error = <<ErrorString(e)>>
        /\ Settles(j) =>
             /\ Len(processingHistory') = Len(processingHistory)
             /\ \A k \in DOMAIN processingHistory :
                  processingHistory[k].timestamp # j
                    => processingHistory'[k] = processingHistory[k] ]_vars

\* C9: a failure of job j's resolution makes j's record failed with a
\* non-empty error and changes no other record, nor the registry or renderer.
C9_FailureContained ==
  [][ \A j \in DOMAIN jobs : \A e \in Failures : Catch(j, e) =>
        /\ \A k \in RecordsOf(processingHistory', j) :
             /\ processingHistory'[k].status = "failed"
             /\ processingHistory'[k].error # <<>>
             /\ processingHistory'[k].error[1] # ""
        /\ Len(processingHistory') = Len(processingHistory)
        /\ \A k \in DOMAIN processingHistory :
             processingHistory[k].timestamp # j
               => processingHistory'[k] = processingHistory[k]
        /\ UNCHANGED <<images, volumes, currentImageIndex, selectedTool>> ]_vars

\* C10: deleteRecord(id) with id present removes one record and leaves the
\* others as they were, in their order.
C10_DeleteRemovesOne ==
  [][ \A id \in IdSpace :
        (handleDeleteHistoryItem(id)
           /\ \E k \in DOMAIN processingHistory : processingHistory[k].id = id)
        => \E k \in DOMAIN processingHistory :
             /\ processingHistory[k].id = id
             /\ processingHistory' = RemoveAt(processingHistory, k) ]_vars

\* C11 as stated: whenever clearAll has run, the history is empty.
C11_ClearAlwaysEmpties ==
  [][ (notice = ConfirmClearNotice /\ notice' = NoNotice)
        => processingHistory' = <<>> ]_vars

\* C11 amended: clearAll empties the history when the user confirms and
\* leaves it unchanged when the user declines.
C11_ClearEmptiesWhenConfirmed ==
  [][ /\ handleClearHistory(TRUE) => processingHistory' = <<>>
      /\ handleClearHistory(FALSE) => processingHistory' = processingHistory ]_vars

\* the history is empty although two jobs with different ids were submitted
\* and neither record was deleted by its id before the second submission
C11_Witness ==
  /\ processingHistory = <<>>
  /\ Len(jobs) = 2
  /\ jobs[1].id # jobs[2].id
  /\ jobs[1].stage = "done" /\ jobs[2].stage = "scheduled"

\* C12: viewResult on a record without a result, or with an empty image
\* list, shows a notice and changes neither renderer, registry nor history.
C12_NoLoadWithoutResult ==
  [][ \A k \in DOMAIN processingHistory :
        LET item == processingHistory[k]
        IN (handleViewResult(item)
              /\ (item.result = <<>> \/ item.result[1].imageOptionsArray = <<>>))
           => /\ notice' \in {NoResultNotice, EmptyResultNotice}
              /\ UNCHANGED <<volumes, images, processingHistory>> ]_vars

\* the empty-result notice is on screen while the renderer holds volumes
C12_Witness == notice = EmptyResultNotice /\ Len(volumes) = 2

\* C13: setActive(i) for a valid index i sets the cursor to i and leaves
\* opacity 1 on the volume of image i and opacity 0 on the volume of every
\* other registry image.
C13_SetActiveShowsOne ==
  [][ \A id \in 0..MaxImages - 1 : handleVisibility(id) =>
        /\ currentImageIndex' = id
        /\ \A k \in DOMAIN images' :
             LET volIdx == getVolumeIndexByID(volumes', images'[k].id)
             IN /\ volIdx # -1
                /\ opacity'[volIdx + 1] = (IF k - 1 = id THEN Opaque ELSE Hidden) ]_vars

\* C14: no two records ever created carry the same id.
C14_IdsUnique ==
  \A i, j \in DOMAIN jobs : i # j => jobs[i].id # jobs[j].id

\* C15: toggleSelection(id) flips the flag of the image with that id, keeps
\* every other flag, every id and name, the length and the order; applied
\* again it gives back the registry it started from.
C15_ToggleFlipsOne ==
  [][ \A id \in 1..MaxImages : toggleImageSelection(id) =>
        /\ Len(images') = Len(images)
        /\ \A k \in DOMAIN images :
             /\ images'[k].id = images[k].id
             /\ images'[k].name = images[k].name
             /\ images'[k].selected = (IF images[k].id = id THEN ~images[k].selected
                                       ELSE images[k].selected)
        /\ ToggleSelected(images', id) = images ]_vars

\* of two images, the second has been toggled on and the first has not
C15_Witness ==
  /\ Len(images) = 2
  /\ ~images[1].selected
  /\ images[2].selected

\* C16: every registry image has its volume in the renderer, at the
\* image's registry index.
C16_RegistryMatchesRenderer ==
  \A k \in DOMAIN images : k <= Len(volumes) /\ volumes[k] = images[k].id

\* C17: when a job settles whose record is no longer in the history, the
\* history stays as it was; the history grows only by a submit.
C17_RemovedNeverRecreated ==
  [][ /\ \A j \in DOMAIN jobs :
           (Settles(j) /\ RecordsOf(processingHistory, j) = {})
             => processingHistory' = processingHistory
      /\ Len(processingHistory') > Len(processingHistory) => clock' = clock + 1 ]_vars

\* C18: the cursor is absent or an index of the registry.
C18_CursorInRegistry ==
  currentImageIndex = NoIndex
    \/ (0 <= currentImageIndex /\ currentImageIndex < Len(images))

\* C19: whenever the cursor is set and the registry is not empty, the volume
\* of the image at the cursor has opacity 1 and the volume of every other
\* registry image has opacity 0.
C19_VisibilityFollowsCursor ==
  (currentImageIndex # NoIndex /\ Len(images) >= 1) =>
    \A k \in DOMAIN images :
      LET volIdx == getVolumeIndexByID(volumes, images[k].id)
      IN /\ volIdx # -1
         /\ opacity[volIdx + 1] =
              (IF k - 1 = currentImageIndex THEN Opaque ELSE Hidden)

====
